---- MODULE Spec2Model ----
(***************************************************************************)
(* Blossom.Launch intake wizard (src/index.js): the App component's state, *)
(* the handlers the rendered step offers, and submitBrief as an            *)
(* asynchronous call whose awaits are resolved by the environment.         *)
(***************************************************************************)
EXTENDS Integers, Sequences, FiniteSets, TLC

(***************************************************************************)
(* Bounds of the exploration.                                              *)
(***************************************************************************)
\* edits other than the first filling-in of a validated field
MaxOtherEdits == 1
\* fields of an input record of normalizePayload replaced by arbitrary values
MaxReplaced == 1

(***************************************************************************)
(* JavaScript values, tagged with their typeof.                            *)
(***************************************************************************)
Str(x) == [t |-> "string", s |-> x, n |-> 0, b |-> FALSE]
Bool(x) == [t |-> "boolean", s |-> "", n |-> 0, b |-> x]
Num(x) == [t |-> "number", s |-> "", n |-> x, b |-> FALSE]
Undefined == [t |-> "undefined", s |-> "", n |-> 0, b |-> FALSE]
Null == [t |-> "object", s |-> "", n |-> 0, b |-> FALSE]

\* ToBoolean: what `!v`, `!!v` and `v || d` test
Truthy(v) ==
  CASE v.t = "string" -> v.s # ""
    [] v.t = "number" -> v.n # 0
    [] v.t = "boolean" -> v.b
    [] OTHER -> FALSE

\* a || d
OrElse(v, d) == IF Truthy(v) THEN v ELSE d

\* String(v)
ToStr(v) ==
  CASE v.t = "string" -> v.s
    [] v.t = "number" -> ToString(v.n)
    [] v.t = "boolean" -> (IF v.b THEN "true" ELSE "false")
    [] v.t = "undefined" -> "undefined"
    [] OTHER -> "null"

(***************************************************************************)
(* FormData.                                                               *)
(***************************************************************************)
TextFields ==
  {"name", "email", "company", "oneLiner", "customer", "problem", "success",
   "mustHaves", "niceToHaves", "integrations", "assets", "targetDate", "deadline"}
EnumFields == {"availability", "plan"}
BoolFields == {"agreeScope", "caseStudyOptIn"}
Fields == TextFields \cup EnumFields \cup BoolFields

\* what the user can type into a text input
TextValues == {"", "a"}
Availabilities == {"same-day", "next-day", "72hr"}
plans == {"pilot", "standard", "pro"}

\* useState({...}) of data
InitialData ==
  [name |-> Str(""), email |-> Str(""), company |-> Str(""), oneLiner |-> Str(""),
   customer |-> Str(""), problem |-> Str(""), success |-> Str(""),
   mustHaves |-> Str(""), niceToHaves |-> Str(""), integrations |-> Str(""),
   assets |-> Str(""), targetDate |-> Str(""), deadline |-> Str(""),
   availability |-> Str("same-day"), plan |-> Str("pilot"),
   agreeScope |-> Bool(FALSE), caseStudyOptIn |-> Bool(FALSE)]

\* String(d.f || dflt) per field, !!d.f for the two flags
\* variant: the fields passed through without String() and !!
normalizePayloadWithoutCoercion(d) ==
  [f \in Fields |->
     IF f \in BoolFields THEN d[f]
     ELSE OrElse(d[f], Str(IF f = "availability" THEN "same-day"
                           ELSE IF f = "plan" THEN "pilot" ELSE ""))]

\* variant: every default the empty string
normalizePayloadEmptyDefaults(d) ==
  [f \in Fields |->
     IF f \in BoolFields THEN Bool(Truthy(d[f]))
     ELSE Str(ToStr(OrElse(d[f], Str(""))))]

normalizePayload(d) ==
  [name |-> Str(ToStr(OrElse(d.name, Str("")))),
   email |-> Str(ToStr(OrElse(d.email, Str("")))),
   company |-> Str(ToStr(OrElse(d.company, Str("")))),
   oneLiner |-> Str(ToStr(OrElse(d.oneLiner, Str("")))),
   customer |-> Str(ToStr(OrElse(d.customer, Str("")))),
   problem |-> Str(ToStr(OrElse(d.problem, Str("")))),
   success |-> Str(ToStr(OrElse(d.success, Str("")))),
   mustHaves |-> Str(ToStr(OrElse(d.mustHaves, Str("")))),
   niceToHaves |-> Str(ToStr(OrElse(d.niceToHaves, Str("")))),
   integrations |-> Str(ToStr(OrElse(d.integrations, Str("")))),
   assets |-> Str(ToStr(OrElse(d.assets, Str("")))),
   targetDate |-> Str(ToStr(OrElse(d.targetDate, Str("")))),
   deadline |-> Str(ToStr(OrElse(d.deadline, Str("")))),
   availability |-> Str(ToStr(OrElse(d.availability, Str("same-day")))),
   plan |-> Str(ToStr(OrElse(d.plan, Str("pilot")))),
   agreeScope |-> Bool(Truthy(d.agreeScope)),
   caseStudyOptIn |-> Bool(Truthy(d.caseStudyOptIn))]

(***************************************************************************)
(* Wizard steps.                                                           *)
(***************************************************************************)
steps == <<"contact", "vision", "scope", "timeline", "plan", "review", "confirm">>

\* steps.findIndex((x) => x.id === id), 0-based, -1 when absent
findIndex(id) ==
  IF \E i \in 1..Len(steps) : steps[i] = id
  THEN (CHOOSE i \in 1..Len(steps) :
          steps[i] = id /\ \A j \in 1..(i - 1) : steps[j] # id) - 1
  ELSE -1

Min(a, b) == IF a < b THEN a ELSE b
Max(a, b) == IF a > b THEN a ELSE b

\* the step body on which the control of a field is rendered
StepOf(f) ==
  CASE f \in {"name", "email", "company"} -> 0
    [] f \in {"oneLiner", "customer", "problem", "success"} -> 1
    [] f \in {"mustHaves", "niceToHaves", "integrations", "assets"} -> 2
    [] f \in {"targetDate", "deadline", "availability"} -> 3
    [] OTHER -> 4

VARIABLES
  step,            \* useState(0)
  loading,         \* useState(false)
  schedulerReady,  \* useState(false)
  submitMode,      \* useState("server")
  data,            \* useState({...})
  calls,           \* submitBrief invocations of the wizard that have not returned,
                   \* in the order they were started
  otherEdits,      \* edits counted against MaxOtherEdits
  alertMsg,        \* the message alert() showed during the last step, "" if none
  result,          \* the value submitBrief returned during the last step
  everOk,          \* some submission has completed with ok = true
  everFailed,      \* some submission has completed with ok = false
  test             \* runInlineTests: its input, Test 1's payload, Test 2's call

vars == <<step, loading, schedulerReady, submitMode, data, calls, otherEdits,
          alertMsg, result, everOk, everFailed, test>>

NoResult == [ok |-> FALSE, mode |-> "", error |-> "", none |-> TRUE]
Success(m) == [ok |-> TRUE, mode |-> m, error |-> "", none |-> FALSE]
Failure(e) == [ok |-> FALSE, mode |-> "", error |-> e, none |-> FALSE]

\* the `base` record of runInlineTests; the fields it lacks read as undefined
TestBase ==
  [name |-> Str("Jane Founder"), email |-> Str("jane@demo.co"),
   company |-> Undefined, oneLiner |-> Str("A thing"), customer |-> Str("SMBs"),
   problem |-> Str("No time"), success |-> Str("More leads"),
   mustHaves |-> Str("Booking form"), niceToHaves |-> Undefined,
   integrations |-> Str("Stripe, HubSpot"), assets |-> Undefined,
   targetDate |-> Undefined, deadline |-> Undefined, availability |-> Undefined,
   plan |-> Undefined, agreeScope |-> Bool(TRUE), caseStudyOptIn |-> Undefined]

\* no payload computed yet
NoPayload == [f \in Fields |-> Undefined]

\* runInlineTests about to run on the record d
TestStart(d) ==
  [pc |-> "start", base |-> d, n |-> NoPayload, body |-> NoPayload, status |-> 0,
   timer |-> 0, r |-> NoResult, log |-> ""]

\* the App component after its first render
WizardInit ==
  /\ step = 0
  /\ loading = FALSE
  /\ schedulerReady = FALSE
  /\ submitMode = "server"
  /\ data = InitialData
  /\ calls = <<>>
  /\ otherEdits = 0
  /\ alertMsg = ""
  /\ result = NoResult
  /\ everOk = FALSE
  /\ everFailed = FALSE

Init ==
  /\ WizardInit
  /\ test = TestStart(TestBase)

(***************************************************************************)
(* Field edits: the onChange / onSelect handlers, each setData({...data,   *)
(* f: v}).  A control exists only while its step body is the one stepBody   *)
(* selects; React re-renders between events, so a handler sees the current *)
(* data.                                                                   *)
(***************************************************************************)
\* the fields onSubmitBrief tests before the network call
ValidatedFields ==
  {"name", "email", "oneLiner", "customer", "problem", "success", "mustHaves",
   "integrations", "agreeScope"}

\* an edit that fills in a validated field that was empty (or ticks agreeScope);
\* such edits are not counted against MaxOtherEdits
IsFill(f, v) == f \in ValidatedFields /\ ~Truthy(data[f]) /\ Truthy(v)

\* variant: setData({ f: v }) without spreading the old data
setDataWithoutSpread(f, v) ==
  /\ data' = [g \in Fields |-> IF g = f THEN v ELSE Undefined]
  /\ \/ v = data[f] /\ otherEdits' = otherEdits
     \/ v # data[f] /\ IsFill(f, v) /\ otherEdits' = otherEdits
     \/ v # data[f] /\ ~IsFill(f, v) /\ otherEdits < MaxOtherEdits
        /\ otherEdits' = otherEdits + 1
  /\ alertMsg' = ""
  /\ result' = NoResult
  /\ UNCHANGED <<step, loading, schedulerReady, submitMode, calls, everOk,
                 everFailed, test>>

\* setData({ ...data, f: v })
setData(f, v) ==
  /\ data' = [data EXCEPT ![f] = v]
  /\ \/ v = data[f] /\ otherEdits' = otherEdits
     \/ v # data[f] /\ IsFill(f, v) /\ otherEdits' = otherEdits
     \/ v # data[f] /\ ~IsFill(f, v) /\ otherEdits < MaxOtherEdits
        /\ otherEdits' = otherEdits + 1
  /\ alertMsg' = ""
  /\ result' = NoResult
  /\ UNCHANGED <<step, loading, schedulerReady, submitMode, calls, everOk,
                 everFailed, test>>

\* <input>/<textarea> onChange: e.target.value differs from the shown value
onChangeText(f, v) ==
  /\ f \in TextFields
  /\ step = StepOf(f)
  /\ v # data[f].s
  /\ setData(f, Str(v))

\* <select> onChange of availability
onChangeAvailability(v) ==
  /\ step = StepOf("availability")
  /\ v # data.availability.s
  /\ setData("availability", Str(v))

\* PlanCard onClick: onSelect(plan.id), also on the card already selected
onSelectPlan(id) ==
  /\ step = StepOf("plan")
  /\ setData("plan", Str(id))

\* checkbox onChange: e.target.checked is the negation of what is shown
onChangeCheckbox(f) ==
  /\ f \in BoolFields
  /\ step = StepOf(f)
  /\ setData(f, Bool(~data[f].b))

(***************************************************************************)
(* Navigation.                                                             *)
(***************************************************************************)
\* variant: PlanStep does not pass nextDisabled
NextButtonIgnoresAgreeScope == step \in 0..4

\* variant: the review step offers Next as well
NextButtonOnReviewToo ==
  /\ step \in 0..5
  /\ (step = 4 => Truthy(data.agreeScope))

\* NavButtons is part of the step bodies 0..4; PlanStep passes nextDisabled
NextButtonEnabled ==
  /\ step \in 0..4
  /\ (step = 4 => Truthy(data.agreeScope))

\* variant: the confirmation step has a Back button too
BackButtonOnConfirmToo == step \in 0..6

\* NavButtons (0..4) and ReviewStep (5) have a Back button
BackButtonEnabled == step \in 0..5

\* (s) => Math.min(s + 1, steps.length - 1)
nextStep(s) == Min(s + 1, Len(steps) - 1)

\* variant: back without Math.max
backStepUnclamped(s) == s - 1

\* (s) => Math.max(s - 1, 0)
backStep(s) == Max(s - 1, 0)

next ==
  /\ NextButtonEnabled
  /\ step' = nextStep(step)
  /\ alertMsg' = ""
  /\ result' = NoResult
  /\ UNCHANGED <<loading, schedulerReady, submitMode, data, calls, otherEdits,
                 everOk, everFailed, test>>

back ==
  /\ BackButtonEnabled
  /\ step' = backStep(step)
  /\ alertMsg' = ""
  /\ result' = NoResult
  /\ UNCHANGED <<loading, schedulerReady, submitMode, data, calls, otherEdits,
                 everOk, everFailed, test>>

(***************************************************************************)
(* submitBrief: an async function.  A call is a record whose pc names the  *)
(* await it is suspended at: the fetch, the fallback timer or res.text().  *)
(***************************************************************************)
\* res.status values the endpoint answers with
Statuses == {200, 201, 400, 404, 405, 500, 501, 503}
\* res.text() values
Bodies == {"", "oops"}

\* variant: only 200 counts as ok
resOkOnly200(status) == status = 200

\* Response.ok
resOk(status) == status >= 200 /\ status <= 299

\* variant: 501 is not in the list
PreviewStatusesWithout501 == {404, 405}

\* [404, 405, 501]
PreviewStatuses == {404, 405, 501}

\* setTimeout(r, 400)
PreviewDelayMs == 400

\* the call as it stands once `await fetch(...)` is entered
\* variant: the handler closes over the data of the first render
submitBriefStaleClosure(payload) ==
  [body |-> normalizePayload(InitialData), pc |-> "fetch", status |-> 0, timer |-> 0]

submitBrief(payload) ==
  [body |-> normalizePayload(payload), pc |-> "fetch", status |-> 0, timer |-> 0]

\* `HTTP ${res.status}: ${text}`
httpError(status, text) == "HTTP " \o ToString(status) \o ": " \o text

\* variant: every 5xx falls back, as the file header comment describes
afterFetchPreviewOn5xx(status) ==
  IF resOk(status) THEN "return"
  ELSE IF status \in {404, 405} \/ (status >= 500 /\ status <= 599) THEN "sleep"
  ELSE "text"

\* what the code after `await fetch` does with a response of this status
afterFetch(status) ==
  IF resOk(status) THEN "return"
  ELSE IF status \in PreviewStatuses THEN "sleep"
  ELSE "text"

(***************************************************************************)
(* onSubmitBrief.                                                          *)
(***************************************************************************)
\* variant: integrations is not tested
passesValidationSkipsIntegrations(d) ==
  ~(\/ ~Truthy(d.name) \/ ~Truthy(d.email) \/ ~Truthy(d.oneLiner)
    \/ ~Truthy(d.customer) \/ ~Truthy(d.problem) \/ ~Truthy(d.success)
    \/ ~Truthy(d.mustHaves) \/ ~Truthy(d.agreeScope))

\* the negation of the `if` of onSubmitBrief
passesValidation(d) ==
  ~(\/ ~Truthy(d.name) \/ ~Truthy(d.email) \/ ~Truthy(d.oneLiner)
    \/ ~Truthy(d.customer) \/ ~Truthy(d.problem) \/ ~Truthy(d.success)
    \/ ~Truthy(d.mustHaves) \/ ~Truthy(d.integrations) \/ ~Truthy(d.agreeScope))

ValidationAlert == "Please complete all required fields and confirm scope."

\* variant: the submit button lacks disabled={loading}
SubmitButtonNeverDisabled == step = 5

\* ReviewStep renders the submit button with disabled={loading}
SubmitButtonEnabled == step = 5 /\ ~loading

\* the click handler up to its first await
onSubmitBrief ==
  /\ SubmitButtonEnabled
  /\ result' = NoResult
  /\ IF ~passesValidation(data)
     THEN /\ alertMsg' = ValidationAlert
          /\ UNCHANGED <<loading, calls>>
     ELSE /\ alertMsg' = ""
          /\ loading' = TRUE
          /\ calls' = Append(calls, submitBrief(data))
  /\ UNCHANGED <<step, schedulerReady, submitMode, data, otherEdits, everOk,
                 everFailed, test>>

\* variant: success advances by one step instead of jumping to confirm
setStepConfirmAdvances(s) == Min(s + 1, Len(steps) - 1)

\* setStep(steps.findIndex((x) => x.id === "confirm")), s being the step before
setStepConfirm(s) == findIndex("confirm")

\* variant: the alert drops the error detail
failureAlertWithoutError(error) == "We couldn't submit your brief."

\* alert(`We couldn't submit your brief. ${result.error}`)
failureAlert(error) == "We couldn't submit your brief. " \o error

\* variant: the returned mode is not recorded
modeOrServerIgnoresMode(r) == "server"

\* result.mode || "server"
modeOrServer(r) == IF r.mode # "" THEN r.mode ELSE "server"

\* calls without its i-th element
Remove(q, i) == SubSeq(q, 1, i - 1) \o SubSeq(q, i + 1, Len(q))

\* the rest of onSubmitBrief, run when the i-th call returns r
resume(i, r) ==
  /\ calls' = Remove(calls, i)
  /\ result' = r
  /\ loading' = FALSE
  /\ IF r.ok
     THEN /\ submitMode' = modeOrServer(r)
          /\ step' = setStepConfirm(step)
          /\ everOk' = TRUE
          /\ alertMsg' = ""
          /\ UNCHANGED everFailed
     ELSE /\ alertMsg' = failureAlert(r.error)
          /\ everFailed' = TRUE
          /\ UNCHANGED <<step, submitMode, everOk>>
  /\ UNCHANGED <<schedulerReady, data, otherEdits, test>>

\* the i-th call moves on to another await; the wizard's state is untouched
suspend(i, pc, status) ==
  /\ calls' = [calls EXCEPT ![i] =
       [@ EXCEPT !.pc = pc, !.status = status,
                 !.timer = IF pc = "sleep" THEN PreviewDelayMs ELSE 0]]
  /\ alertMsg' = ""
  /\ result' = NoResult
  /\ UNCHANGED <<step, loading, schedulerReady, submitMode, data, otherEdits,
                 everOk, everFailed, test>>

\* fetch resolves with a response
fetchResolves(i, status) ==
  /\ calls[i].pc = "fetch"
  /\ IF afterFetch(status) = "return"
     THEN resume(i, Success("server"))
     ELSE suspend(i, afterFetch(status), status)

\* variant: the catch block reports the network error as a failure
fetchRejectsReturnsFailure(i) ==
  /\ calls[i].pc = "fetch"
  /\ resume(i, Failure("Network error"))

\* fetch rejects: the catch block arms the timer
fetchRejects(i) ==
  /\ calls[i].pc = "fetch"
  /\ suspend(i, "sleep", 0)

\* variant: the promise of the fallback delay is never resolved
timerNeverFires(i) ==
  /\ FALSE
  /\ UNCHANGED vars

\* the 400 ms timer of either fallback path fires
timerFires(i) ==
  /\ calls[i].pc = "sleep"
  /\ resume(i, Success("mock"))

\* variant: a hard failure is retried instead of returned
textResolvesRetries(i, text) ==
  /\ calls[i].pc = "text"
  /\ suspend(i, "fetch", 0)

\* res.text() resolves
textResolves(i, text) ==
  /\ calls[i].pc = "text"
  /\ resume(i, Failure(httpError(calls[i].status, text)))

\* res.text() rejects inside the try block: the catch block arms the timer
textRejects(i) ==
  /\ calls[i].pc = "text"
  /\ suspend(i, "sleep", calls[i].status)

(***************************************************************************)
(* The scheduler iframe of ConfirmationStep.                               *)
(***************************************************************************)
\* variant: the iframe is rendered on every step
onLoadOnAnyStep ==
  /\ schedulerReady' = TRUE
  /\ alertMsg' = ""
  /\ result' = NoResult
  /\ UNCHANGED <<step, loading, submitMode, data, calls, otherEdits, everOk,
                 everFailed, test>>

\* onLoad of the iframe, which exists while ConfirmationStep is rendered
onLoad ==
  /\ step = 6
  /\ schedulerReady' = TRUE
  /\ alertMsg' = ""
  /\ result' = NoResult
  /\ UNCHANGED <<step, loading, submitMode, data, calls, otherEdits, everOk,
                 everFailed, test>>

\* ConfirmationStep renders the preview-mode notice
previewNoticeShown == step = 6 /\ submitMode = "mock"

Next ==
  \/ \E f \in TextFields, v \in TextValues : onChangeText(f, v)
  \/ \E v \in Availabilities : onChangeAvailability(v)
  \/ \E id \in plans : onSelectPlan(id)
  \/ \E f \in BoolFields : onChangeCheckbox(f)
  \/ next
  \/ back
  \/ onSubmitBrief
  \/ \E i \in DOMAIN calls, status \in Statuses : fetchResolves(i, status)
  \/ \E i \in DOMAIN calls : fetchRejects(i)
  \/ \E i \in DOMAIN calls : timerFires(i)
  \/ \E i \in DOMAIN calls, text \in Bodies : textResolves(i, text)
  \/ \E i \in DOMAIN calls : textRejects(i)
  \/ onLoad

Spec == Init /\ [][Next]_vars

\* a pending call's await is settled: the transport answers or fails, the
\* body is read or the read fails, the timer fires
Transport ==
  \E i \in DOMAIN calls :
    \/ \E status \in Statuses : fetchResolves(i, status)
    \/ fetchRejects(i)
    \/ timerFires(i)
    \/ \E text \in Bodies : textResolves(i, text)
    \/ textRejects(i)

\* the wizard under a transport that eventually responds or fails and an
\* event loop that runs due timers
FairSpec == Spec /\ WF_vars(Transport)

(***************************************************************************)
(* runInlineTests, started by the mount effect.  It shares no state with   *)
(* the wizard (its outcome is only logged), so it is explored on its own,  *)
(* and on more input records than the one the code passes.                 *)
(***************************************************************************)
\* values a field of an input record may hold
JSValues ==
  {Undefined, Null, Num(0), Num(5), Bool(FALSE), Bool(TRUE), Str(""), Str("a"),
   Str("next-day"), Str("pro")}

\* the records reached from those of ds by replacing up to k fields
RECURSIVE Replaced(_, _)
Replaced(ds, k) ==
  IF k = 0 THEN ds
  ELSE Replaced(ds \cup {[d EXCEPT ![f] = v] : d \in ds, f \in Fields, v \in JSValues},
                k - 1)

\* input records: the ones the code passes to normalizePayload, varied
TestInputs == Replaced({TestBase, InitialData}, MaxReplaced)

\* Object.values(n).every((v) => typeof v === "string" || typeof v === "boolean")
onlyValid(n) == \A f \in DOMAIN n : n[f].t = "string" \/ n[f].t = "boolean"

wizardVars == <<step, loading, schedulerReady, submitMode, data, calls, otherEdits,
                alertMsg, result, everOk, everFailed>>

\* Test 1, then the start of Test 2: submitBrief(base, "/__invalid__")
runInlineTests ==
  /\ test.pc = "start"
  /\ LET n == normalizePayload(test.base) IN
       IF ~onlyValid(n)
       THEN test' = [test EXCEPT !.pc = "done", !.n = n,
                                 !.log = "Inline tests encountered an error"]
       ELSE test' = [test EXCEPT !.pc = "fetch", !.n = n,
                                 !.body = normalizePayload(test.base)]
  /\ UNCHANGED wizardVars

\* the .then callback of Test 2 on the value r submitBrief returned
testDone(r) ==
  /\ test' = [test EXCEPT !.pc = "done", !.r = r, !.timer = 0,
                !.log = IF ~(r.ok /\ r.mode = "mock")
                        THEN "Test 2 failed: mock fallback not triggered"
                        ELSE "Tests OK: payload + mock fallback working"]
  /\ UNCHANGED wizardVars

\* Test 2's call moves on to another await
testSuspend(pc, status) ==
  /\ test' = [test EXCEPT !.pc = pc, !.status = status,
                !.timer = IF pc = "sleep" THEN PreviewDelayMs ELSE 0]
  /\ UNCHANGED wizardVars

testFetchResolves(status) ==
  /\ test.pc = "fetch"
  /\ IF afterFetch(status) = "return"
     THEN testDone(Success("server"))
     ELSE testSuspend(afterFetch(status), status)

testFetchRejects ==
  /\ test.pc = "fetch"
  /\ testSuspend("sleep", 0)

testTimerFires ==
  /\ test.pc = "sleep"
  /\ testDone(Success("mock"))

testTextResolves(text) ==
  /\ test.pc = "text"
  /\ testDone(Failure(httpError(test.status, text)))

testTextRejects ==
  /\ test.pc = "text"
  /\ testSuspend("sleep", test.status)

InlineInit ==
  /\ WizardInit
  /\ test \in {TestStart(d) : d \in TestInputs}

InlineNext ==
  \/ runInlineTests
  \/ \E status \in Statuses : testFetchResolves(status)
  \/ testFetchRejects
  \/ testTimerFires
  \/ \E text \in Bodies : testTextResolves(text)
  \/ testTextRejects

InlineSpec == InlineInit /\ [][InlineNext]_vars

(***************************************************************************)
(* Claims.                                                                 *)
(***************************************************************************)
\* some field the validation requires is empty, or the scope is not agreed
Incomplete ==
  \/ \E f \in {"name", "email", "oneLiner", "customer", "problem", "success",
               "mustHaves", "integrations"} : data[f].s = ""
  \/ ~data.agreeScope.b

C2_SuccessForcesConfirm ==
  (~result.none /\ result.ok) => (step = 6 /\ result.mode \in {"server", "mock"})

\* success arrived after the user had gone back to the plan step and unticked
\* agreeScope there, which is only possible off the review step
C2_Witness ==
  /\ ~result.none /\ result.ok
  /\ step = 6
  /\ ~data.agreeScope.b

Returns(i) == Len(calls') = Len(calls) - 1 /\ calls' = Remove(calls, i)

\* C5: when fetch throws or the response status is 404, 405 or 501, nothing
\* is returned before the 400 ms timer; when the timer fires the call returns
\* success with mode mock; no failure is returned and no alert is shown.
C5_SoftFailureYieldsMock ==
  /\ [][\A i \in DOMAIN calls :
          (fetchRejects(i) \/ \E st \in {404, 405, 501} : fetchResolves(i, st)) =>
            /\ Len(calls') = Len(calls)
            /\ calls'[i].pc = "sleep" /\ calls'[i].timer = 400
            /\ result'.none /\ alertMsg' = ""
            /\ step' = step /\ loading' = loading]_vars
  /\ [][\A i \in DOMAIN calls :
          (calls[i].pc = "sleep" /\ calls' # calls) =>
            /\ Returns(i)
            /\ ~result'.none /\ result'.ok /\ result'.mode = "mock"
            /\ result'.error = "" /\ alertMsg' = ""]_vars
  /\ [][(~result'.none /\ result'.mode = "mock") =>
          \E i \in DOMAIN calls :
            Returns(i) /\ calls[i].pc = "sleep" /\ calls[i].timer = 400]_vars

\* the wizard confirmed in mock mode, with nothing alerted
C5_Witness ==
  /\ ~result.none /\ result.ok /\ result.mode = "mock"
  /\ alertMsg = ""
  /\ step = 6 /\ submitMode = "mock"

\* a non-success status outside the endpoint-absent set
HardStatus(st) == ~(st >= 200 /\ st <= 299) /\ st \notin {404, 405, 501}

C7_FallbackOnAny5xx ==
  [][\A i \in DOMAIN calls :
       (/\ Returns(i)
        /\ \/ calls[i].status \in {404, 405}
           \/ (calls[i].status >= 500 /\ calls[i].status <= 599)) =>
         (~result'.none /\ result'.ok /\ result'.mode = "mock")]_vars

\* C8: a call returns success/server exactly when fetch resolved with an ok
\* response (status 200..299); every returned value is success/server,
\* success/mock or a failure.
C8_ServerIffOk ==
  /\ [][(~result'.none /\ result'.ok /\ result'.mode = "server") <=>
          (\E i \in DOMAIN calls : \E st \in Statuses :
             fetchResolves(i, st) /\ st >= 200 /\ st <= 299)]_vars
  /\ [](~result.none =>
          \/ result.ok /\ result.mode \in {"server", "mock"} /\ result.error = ""
          \/ ~result.ok /\ result.mode = "" /\ result.error # "")

C8_Witness ==
  /\ ~result.none /\ result.ok /\ result.mode = "server"
  /\ step = 6 /\ submitMode = "server"

\* C9: when a submission completes with a failure, its error message is
\* alerted, the step stays, loading is false again, and on the review step
\* the submit action is enabled and starts a new request.
C9_FailureAllowsRetry ==
  /\ [][(~result'.none /\ ~result'.ok) =>
          /\ alertMsg' = "We couldn't submit your brief. " \o result'.error
          /\ result'.error # ""
          /\ step' = step
          /\ submitMode' = submitMode
          /\ ~loading']_vars
  /\ []((~result.none /\ ~result.ok /\ step = 5 /\ ~Incomplete) =>
          ENABLED (onSubmitBrief /\ Len(calls') = Len(calls) + 1 /\ loading'))

\* a new request is in flight after an earlier one failed
C9_Witness ==
  /\ everFailed
  /\ step = 5
  /\ loading
  /\ Len(calls) = 1 /\ calls[1].pc = "fetch"

C11_AbsentEndpointYieldsMock ==
  /\ [](\A i \in DOMAIN calls :
          /\ \A f \in {"name", "email", "oneLiner", "customer", "problem",
                       "success", "mustHaves", "integrations"} :
               calls[i].body[f].s # ""
          /\ calls[i].body.agreeScope.b)
  /\ [][\A i \in DOMAIN calls :
          (fetchRejects(i) \/ fetchResolves(i, 404)) =>
            /\ Len(calls') = Len(calls)
            /\ calls'[i].pc = "sleep" /\ calls'[i].status \in {0, 404}
            /\ result'.none]_vars
  /\ [][\A i \in DOMAIN calls :
          (calls[i].pc = "sleep" /\ calls[i].status \in {0, 404} /\ calls' # calls) =>
            /\ result' = [ok |-> TRUE, mode |-> "mock", error |-> "", none |-> FALSE]
            /\ step' = 6
            /\ submitMode' = "mock"
            /\ ~loading' /\ calls' = <<>>]_vars

\* the first submission of the wizard ended in mock mode on the confirm step
C11_Witness ==
  /\ result = [ok |-> TRUE, mode |-> "mock", error |-> "", none |-> FALSE]
  /\ step = 6 /\ submitMode = "mock"
  /\ ~everFailed /\ ~loading /\ calls = <<>>

\* the calls of q that have issued their POST and await the answer
NumFetch(q) == Cardinality({i \in DOMAIN q : q[i].pc = "fetch"})

\* C13: an accepted submission issues exactly one POST and nothing else ever
\* issues one (no retry on the mock or failure paths); a submission repeated
\* after an earlier one is accepted like the first, issues its own request,
\* and every answer is open to it.
C13_OnePostPerSubmission ==
  /\ [][(onSubmitBrief /\ ~Incomplete) =>
          /\ Len(calls') = Len(calls) + 1
          /\ NumFetch(calls') = NumFetch(calls) + 1
          /\ SubSeq(calls', 1, Len(calls)) = calls]_vars
  /\ [][(NumFetch(calls') > NumFetch(calls) \/ Len(calls') > Len(calls)) =>
          (onSubmitBrief /\ ~Incomplete)]_vars
  /\ []((step = 5 /\ ~loading /\ ~Incomplete) =>
          ENABLED (onSubmitBrief /\ NumFetch(calls') = NumFetch(calls) + 1))
  /\ [](\A i \in DOMAIN calls :
          calls[i].pc = "fetch" =>
            /\ \A st \in Statuses : ENABLED fetchResolves(i, st)
            /\ ENABLED fetchRejects(i))

\* a submission repeated after a failed one got its own answer
C13_Witness ==
  /\ everFailed
  /\ ~result.none /\ result.ok /\ result.mode = "server"
  /\ step = 6

Changed(d, e) == {f \in Fields : d[f] # e[f]}

EditEnabled ==
  \/ \E f \in TextFields, v \in TextValues : ENABLED onChangeText(f, v)
  \/ \E v \in Availabilities : ENABLED onChangeAvailability(v)
  \/ \E id \in plans : ENABLED onSelectPlan(id)
  \/ \E f \in BoolFields : ENABLED onChangeCheckbox(f)

UserActionEnabled ==
  \/ ENABLED next
  \/ ENABLED back
  \/ ENABLED onSubmitBrief
  \/ EditEnabled

\* C14: under a transport that eventually responds or fails, a pending
\* submission eventually completes: loading is false again and the wizard is
\* on confirm or showed the error with the step unchanged; before confirm
\* some user action is always enabled.
C14_NoErrorIsFatal ==
  /\ loading ~> (~loading /\ ~result.none /\ (step = 6 \/ alertMsg # ""))
  /\ [][(~result'.none /\ result'.ok) => (step' = 6 /\ ~loading')]_vars
  /\ [][(~result'.none /\ ~result'.ok) =>
          (alertMsg' # "" /\ step' = step /\ ~loading')]_vars
  /\ [](step # 6 => UserActionEnabled)

\* a submission completed by surfacing an error away from the review step,
\* the user having gone back meanwhile
C14_Witness ==
  /\ ~result.none /\ ~result.ok
  /\ alertMsg # ""
  /\ ~loading
  /\ step = 3
\* C12: whatever the fields of the input record hold (nothing, null, a number,
\* a boolean or a string), the record normalizePayload returns has exactly the
\* 17 FormData fields, the 15 text and enum fields hold strings, and agreeScope
\* and caseStudyOptIn hold booleans.
C12_OnlyStringsAndBooleans ==
  test.pc # "start" =>
    /\ DOMAIN test.n =
         {"name", "email", "company", "oneLiner", "customer", "problem", "success",
          "mustHaves", "niceToHaves", "integrations", "assets", "targetDate",
          "deadline", "availability", "plan", "agreeScope", "caseStudyOptIn"}
    /\ \A f \in {"name", "email", "company", "oneLiner", "customer", "problem",
                  "success", "mustHaves", "niceToHaves", "integrations", "assets",
                  "targetDate", "deadline", "availability", "plan"} :
         test.n[f].t = "string"
    /\ test.n.agreeScope.t = "boolean"
    /\ test.n.caseStudyOptIn.t = "boolean"

\* a record with a numeric, a null and an absent field has been normalized
C12_Witness ==
  /\ test.pc # "start"
  /\ test.base.email = Num(5)
  /\ test.base.company = Undefined
  /\ test.base.caseStudyOptIn = Undefined
  /\ test.n.email = Str("5")
  /\ test.n.caseStudyOptIn = Bool(FALSE)

C21_PayloadIsSnapshot ==
  /\ [][(onSubmitBrief /\ ~Incomplete) =>
          /\ Len(calls') = Len(calls) + 1
          /\ calls'[Len(calls')].body = normalizePayload(data)
          /\ calls'[Len(calls')].pc = "fetch"]_vars
  /\ [][Len(calls') = Len(calls) =>
          \A i \in 1..Len(calls) : calls'[i].body = calls[i].body]_vars
  /\ [](loading => ENABLED back)
  /\ []((loading /\ step = 4 /\ otherEdits < MaxOtherEdits) =>
          ENABLED onChangeCheckbox("agreeScope"))
  /\ [][(Incomplete /\ Len(calls) = 1 /\ Returns(1)
           /\ ~result'.none /\ result'.ok) =>
          (step' = 6 /\ data' = data /\ Incomplete')]_vars

\* the request is about to succeed (its fallback timer is running) while the
\* user, back on the plan step, has unticked agreeScope: the body sent still
\* carries the agreeScope and the name of the moment of the submit
C21_Witness ==
  /\ Len(calls) = 1
  /\ loading
  /\ calls[1].pc = "sleep"
  /\ step = 4
  /\ ~data.agreeScope.b
  /\ calls[1].body.agreeScope = Bool(TRUE)
  /\ calls[1].body.name = Str("a")

====
